---- MODULE Spec2Model ----
(***************************************************************************)
(* Stage 2 loader of the SVSM (src/src/stage2.rs) and its firmware-config  *)
(* client (src/src/fw_cfg.rs).                                             *)
(*                                                                         *)
(* stage2_main is modelled as a sequential program: pc is its position,    *)
(* the other variables are its locals, the page table, the per-CPU block   *)
(* and the firmware-config device cursor.  Every loop iteration of the     *)
(* source is one action.                                                   *)
(*                                                                         *)
(* Scaling.  u64/usize words are AddrBits wide instead of 64, a page is    *)
(* 2^PageBits address units instead of 4096 and KERNEL_REGION_SIZE is      *)
(* 2^RegionBits units instead of 16 MiB.  Arithmetic keeps the source's    *)
(* behaviour at the word boundary: in a build with overflow checks an      *)
(* overflowing +/- panics, otherwise it wraps modulo 2^AddrBits.           *)
(*                                                                         *)
(* Everything the hypervisor supplies (directory records, e820 entries,    *)
(* the SEV status, the success of page-table and validation calls) is      *)
(* chosen when the program reads it; dir_seen and e820_seen record what     *)
(* was streamed to the current call.                                       *)
(***************************************************************************)
EXTENDS Integers, Sequences, FiniteSets, TLC

\* ---------------------------------------------------------------- bounds
AddrBits == 8
PageBits == 1
RegionBits == 2
MaxFiles == 2
MaxEntries == 2

\* ------------------------------------------------------------- constants
Top == 2 ^ AddrBits
PAGE_SIZE == 2 ^ PageBits
KERNEL_REGION_SIZE == 2 ^ RegionBits
KERNEL_VIRT_ADDR == Top - 4 * KERNEL_REGION_SIZE
FW_CFG_CTL == 1296
FW_CFG_DATA == 1297
FW_CFG_ID == 1
FW_CFG_FILE_DIR == 25
E820_ENTRY_SIZE == 20
DIR_NAME_LEN == 56
CPUID_PAGE_ADDR == 651264
SECRETS_PAGE_ADDR == 647168

\* ------------------------------------------------------- word arithmetic
\* a + b on a usize/u64: Rust panics on overflow when overflow checks are
\* compiled in and wraps otherwise.
AddOverflows(a, b) == a + b >= Top
WrapAdd(a, b) == (a + b) % Top
SubOverflows(a, b) == a < b
WrapSub(a, b) == (a - b + Top) % Top

\* x & KERNEL_REGION_SIZE_MASK, with KERNEL_REGION_SIZE a power of two
MaskRegion(x) == x - (x % KERNEL_REGION_SIZE)

\* ---------------------------------------------------------------- inputs
\* "etc/e820" as character codes
E820_FILE_NAME == <<101, 116, 99, 47, 101, 56, 50, 48>>

\* a name as the device stores it: padded with NUL to the 56-byte field
PadName(s) == s \o [i \in 1..(DIR_NAME_LEN - Len(s)) |-> 0]

\* the name fields the device may serve: the file looked for, a proper
\* prefix of it, an extension of it, and an unrelated name
DirNames ==
    { PadName(E820_FILE_NAME),
      PadName(SubSeq(E820_FILE_NAME, 1, 7)),
      PadName(E820_FILE_NAME \o <<48>>),
      PadName(<<98, 111, 111, 116>>) }

FileSizes ==
    { 0, E820_ENTRY_SIZE, E820_ENTRY_SIZE * MaxEntries,
      E820_ENTRY_SIZE * MaxEntries + E820_ENTRY_SIZE - 1 }

FileSelectors == { 32, 33 }

\* directory records the device may serve
DirRecords ==
    { [size |-> sz, selector |-> sl, name |-> PadName(E820_FILE_NAME)] :
          sz \in FileSizes, sl \in FileSelectors }
    \cup
    { [size |-> E820_ENTRY_SIZE, selector |-> 34, name |-> nm] :
          nm \in DirNames \ { PadName(E820_FILE_NAME) } }

E820Starts == { 0, KERNEL_REGION_SIZE, Top - 2 * KERNEL_REGION_SIZE }
E820Sizes ==
    { 1, 2 * KERNEL_REGION_SIZE - 1, 2 * KERNEL_REGION_SIZE,
      2 * KERNEL_REGION_SIZE + 1, 32 * KERNEL_REGION_SIZE }

\* memory-map entries the device may serve; type 1 is usable RAM
E820Entries ==
    { [start |-> s, size |-> z, type |-> 1] : s \in E820Starts, z \in E820Sizes }
    \cup
    { [start |-> s, size |-> 2 * KERNEL_REGION_SIZE, type |-> 2] :
          s \in E820Starts }

\* stage2_main's arguments: the raw kernel image [kernel_start, kernel_end)
ImageSizes == { 0, KERNEL_REGION_SIZE, 2 * KERNEL_REGION_SIZE }
ImageStart == PAGE_SIZE

\* KernelMetaData found at kernel_start
Headers ==
    { [virt_addr |-> v, entry |-> v] :
          v \in { KERNEL_VIRT_ADDR, KERNEL_VIRT_ADDR + PAGE_SIZE, 0 } }

\* ----------------------------------------------------------------- state
\* console_out: the lines printed by the panic handler and by
\*   copy_and_launch_kernel (the println!() of the earlier stages are left out)
\* io_log: the port accesses of FwCfg during find_kernel_region, reads in a
\*   row counted in one entry
\* codec_*: a device stream and the values read from it (SpecCodec)
VARIABLES
    pc, stages, panic_msg, console_out,
    overflow_checks, kernel_start, kernel_end,
    sev_es, percpu, console,
    fw_sel, fw_off, io_log,
    n, dir_count, dir_seen, file, fs_result,
    entries, idx, region, e820_seen, fkr_result, fkr_exit,
    r,
    map_paddr, map_vaddr, pgtable,
    val_paddr, val_kaddr, vlog,
    kmd, launch_info, copy,
    codec_pc, codec_sent, codec_wire, codec_got

vars ==
    << pc, stages, panic_msg, console_out,
       overflow_checks, kernel_start, kernel_end,
       sev_es, percpu, console,
       fw_sel, fw_off, io_log,
       n, dir_count, dir_seen, file, fs_result,
       entries, idx, region, e820_seen, fkr_result, fkr_exit,
       r,
       map_paddr, map_vaddr, pgtable,
       val_paddr, val_kaddr, vlog,
       kmd, launch_info, copy,
       codec_pc, codec_sent, codec_wire, codec_got >>

argVars == << overflow_checks, kernel_start, kernel_end >>
codecVars == << codec_pc, codec_sent, codec_wire, codec_got >>
envVars == << sev_es, percpu, console >>
devVars == << fw_sel, fw_off, io_log >>
dirVars == << n, dir_count, dir_seen, file, fs_result >>
scanVars == << entries, idx, region, e820_seen >>
retVars == << fkr_result, fkr_exit, r >>
mapVars == << map_paddr, map_vaddr, pgtable >>
valVars == << val_paddr, val_kaddr, vlog >>
launchVars == << kmd, launch_info, copy >>

ZeroRegion == [start |-> 0, end |-> 0]
NoFile == [size |-> 0, selector |-> 0]
NoHeader == [virt_addr |-> 0, entry |-> 0]
NoLaunchInfo ==
    [kernel_start |-> 0, kernel_end |-> 0, virt_base |-> 0,
     cpuid_page |-> 0, secrets_page |-> 0, ghcb |-> 0]
\* nothing encoded or decoded yet
NoItem == [kind |-> "none"]

NoCopy == [src |-> 0, dst |-> 0, len |-> 0, entry |-> 0]

Init ==
    /\ pc = "paging_init"
    /\ stages = <<>>
    /\ panic_msg = ""
    /\ console_out = <<>>
    /\ overflow_checks \in BOOLEAN
    /\ kernel_start = ImageStart
    /\ kernel_end \in { ImageStart + z : z \in ImageSizes }
    /\ sev_es = FALSE
    /\ percpu = "new"
    /\ console = "none"
    /\ fw_sel = 0
    /\ fw_off = 0
    /\ io_log = <<>>
    /\ n = 0
    /\ dir_count = 0
    /\ dir_seen = <<>>
    /\ file = NoFile
    /\ fs_result = "none"
    /\ entries = 0
    /\ idx = 0
    /\ region = ZeroRegion
    /\ e820_seen = <<>>
    /\ fkr_result = "none"
    /\ fkr_exit = 0
    /\ r = ZeroRegion
    /\ map_paddr = 0
    /\ map_vaddr = 0
    /\ pgtable = {}
    /\ val_paddr = 0
    /\ val_kaddr = 0
    /\ vlog = <<>>
    /\ kmd = NoHeader
    /\ launch_info = NoLaunchInfo
    /\ copy = NoCopy
    /\ codec_pc = "idle"
    /\ codec_sent = NoItem
    /\ codec_wire = <<>>
    /\ codec_got = NoItem

\* panic!(): the handler prints the message on the console and halts forever
Panic(msg) ==
    /\ pc' = "halted"
    /\ panic_msg' = msg
    /\ console_out' = Append(console_out, msg)

EnterStage(s) == stages' = Append(stages, s)

\* ------------------------------------------------------- stage2_main
PagingInit ==
    /\ pc = "paging_init"
    /\ EnterStage("PagingInit")
    /\ pc' = "setup_env"
    /\ UNCHANGED << panic_msg, console_out, argVars, codecVars, envVars,
                    devVars, dirVars, scanVars, retVars, mapVars, valVars,
                    launchVars >>

\* (mutant) the boot goes on without SEV-ES
SevEsMissingIgnored(es) == FALSE

\* the test of line 100: `if !sev_es_enabled()`
SevEsMissing(es) == ~es

\* setup_env: sev_status_init, allocator, init_percpu, then the SEV-ES test
SetupEnv ==
    /\ pc = "setup_env"
    /\ EnterStage("EnvironmentInit")
    /\ \E es \in BOOLEAN, setup_ok \in BOOLEAN :
          /\ sev_es' = es
          /\ IF ~setup_ok
                THEN /\ Panic("Failed to setup percpu data")
                     /\ UNCHANGED << percpu, console >>
                ELSE /\ percpu' = "setup"
                     /\ IF SevEsMissing(es)
                           THEN /\ console' = "default_serial"
                                /\ Panic("SEV-ES not available")
                           ELSE /\ console' = "svsm"
                                /\ pc' = "sev_init"
                                /\ UNCHANGED << panic_msg, console_out >>
    /\ UNCHANGED << argVars, codecVars, devVars, dirVars, scanVars, retVars,
                    mapVars, valVars, launchVars >>

SevInit ==
    /\ pc = "sev_init"
    /\ EnterStage("SevInit")
    /\ pc' = "file_selector"
    /\ UNCHANGED << panic_msg, console_out, argVars, codecVars, envVars,
                    devVars, dirVars, scanVars, retVars, mapVars, valVars,
                    launchVars >>

\* ------------------------------------------------------------ FixedString
\* lines 93-97: FixedString::<56>::new() and 56 times push(read_char()):
\* the string holds the 56 characters of the name field in the order read
FixedStringPushAll(name) == [i \in 1..DIR_NAME_LEN |-> name[i]]

RECURSIVE StripPadding(_)
StripPadding(s) ==
    IF Len(s) > 0 /\ s[Len(s)] = 0
       THEN StripPadding(SubSeq(s, 1, Len(s) - 1))
       ELSE s

\* FixedString::equal_str: exact comparison that ignores the NUL padding
FixedStringEqualStr(fs, str) == StripPadding(fs) = str

\* ------------------------------------------------------- port I/O of FwCfg
\* select(cfg), lines 37-41: io.outw(FW_CFG_CTL, cfg)
Select(log, cfg) ==
    Append(log, [op |-> "outw", port |-> FW_CFG_CTL, val |-> cfg])

\* k times io.inb(FW_CFG_DATA), lines 51, 65 and 74; the log counts the
\* bytes read in a row
InbTimes(log, k) ==
    IF k = 0
       THEN log
       ELSE IF log # <<>> /\ log[Len(log)].op = "inb"
                         /\ log[Len(log)].port = FW_CFG_DATA
               THEN [log EXCEPT ![Len(log)].val = @ + k]
               ELSE Append(log, [op |-> "inb", port |-> FW_CFG_DATA, val |-> k])

\* ------------------------------------------------- FwCfg::file_selector
\* select(FW_CFG_ID), the 4-byte version, select(FW_CFG_FILE_DIR), the count
FileSelectorBegin ==
    /\ pc = "file_selector"
    /\ EnterStage("RegionDiscovery")
    /\ region' = ZeroRegion
    /\ fw_sel' = FW_CFG_FILE_DIR
    /\ fw_off' = 4
    /\ io_log' = InbTimes(Select(InbTimes(Select(io_log, FW_CFG_ID), 4),
                                 FW_CFG_FILE_DIR), 4)
    /\ \E count \in 0..MaxFiles : n' = count /\ dir_count' = count
    /\ dir_seen' = <<>>
    /\ pc' = "dir_loop"
    /\ UNCHANGED << panic_msg, console_out, argVars, codecVars, envVars, file,
                    fs_result, entries, idx, e820_seen, retVars, mapVars,
                    valVars, launchVars >>

\* (mutant) only the first Len(str) characters are compared
RecordMatchesPrefix(rec, str) == SubSeq(rec.name, 1, Len(str)) = str

\* does this directory record end the scan?
RecordMatches(rec, str) ==
    FixedStringEqualStr(FixedStringPushAll(rec.name), str)

\* (mutant) the unused u16 of a record is not read
DirRecordBytesNoUnused == 4 + 2 + DIR_NAME_LEN

\* bytes read per record, lines 90-97: size u32, select u16, unused u16, name
DirRecordBytes == 4 + 2 + 2 + DIR_NAME_LEN

\* one iteration of `while n != 0`: read one 64-byte record, compare its name
FileSelectorRecord ==
    /\ pc = "dir_loop"
    /\ n # 0
    /\ \E rec \in DirRecords :
          /\ fw_off' = fw_off + DirRecordBytes
          /\ io_log' = InbTimes(io_log, DirRecordBytes)
          /\ dir_seen' = Append(dir_seen, rec)
          /\ IF RecordMatches(rec, E820_FILE_NAME)
                THEN /\ file' = [size |-> rec.size, selector |-> rec.selector]
                     /\ fs_result' = "Ok"
                     /\ pc' = "select_e820"
                     /\ UNCHANGED n
                ELSE /\ n' = n - 1
                     /\ UNCHANGED << file, fs_result, pc >>
    /\ UNCHANGED << stages, panic_msg, console_out, argVars, codecVars,
                    envVars, fw_sel, dir_count, scanVars, retVars, mapVars,
                    valVars, launchVars >>

\* the value find_kernel_region returns at line 113: `Err(e)`, e being the
\* unit value of file_selector's `Err(())` (line 105)
FileNotFoundResult == "Err"

\* the value find_kernel_region returns at line 143: `Err(())`
RegionTooSmallResult == "Err"

\* the count is exhausted: file_selector returns Err(()), find_kernel_region
\* returns it (line 113) and stage2_main's unwrap() panics
FileSelectorNotFound ==
    /\ pc = "dir_loop"
    /\ n = 0
    /\ fs_result' = "Err"
    /\ fkr_result' = FileNotFoundResult
    /\ fkr_exit' = 113
    /\ Panic("find_kernel_region: unwrap on Err")
    /\ UNCHANGED << stages, argVars, codecVars, envVars, devVars, n,
                    dir_count, dir_seen, file, scanVars, r, mapVars, valVars,
                    launchVars >>

\* --------------------------------------------- FwCfg::find_kernel_region
\* (mutant) a file that ends in a partial entry has that entry read too
EntryCountRoundedUp(size) ==
    (size + E820_ENTRY_SIZE - 1) \div E820_ENTRY_SIZE

\* line 120: `let entries = file.size / 20`
EntryCount(size) == size \div E820_ENTRY_SIZE

\* file_selector returned Ok: select the file, entries = size / 20
SelectE820 ==
    /\ pc = "select_e820"
    /\ fw_sel' = file.selector
    /\ fw_off' = 0
    /\ io_log' = Select(io_log, file.selector)
    /\ entries' = EntryCount(file.size)
    /\ idx' = 0
    /\ e820_seen' = <<>>
    /\ n' = 0
    /\ dir_count' = 0
    /\ dir_seen' = <<>>
    /\ pc' = "e820_loop"
    /\ UNCHANGED << stages, panic_msg, console_out, argVars, codecVars,
                    envVars, file, fs_result, region, retVars, mapVars,
                    valVars, launchVars >>

\* (mutant) every usable entry replaces the running region
QualifiesAnyUsable(e, reg) == e.type = 1

\* (mutant) the start must grow strictly
QualifiesStrict(e, reg) == e.type = 1 /\ e.start > reg.start

\* the test of line 131
Qualifies(e, reg) == e.type = 1 /\ e.start >= reg.start

\* the loop of lines 123-137 over the entries seq from entry i on: the
\* index of the entry the running region reg was last set from (sel)
RECURSIVE ScanFrom(_, _, _, _)
ScanFrom(seq, i, reg, sel) ==
    IF i > Len(seq)
       THEN sel
       ELSE IF Qualifies(seq[i], reg)
               THEN ScanFrom(seq, i + 1,
                             [start |-> seq[i].start,
                              end |-> WrapAdd(seq[i].start, seq[i].size)], i)
               ELSE ScanFrom(seq, i + 1, reg, sel)

\* the entry the scan of seq selects (0 when it selects none)
ScanSelect(seq) == ScanFrom(seq, 1, ZeroRegion, 0)

\* one iteration of `for _i in 0..entries`: read start, size, type
ScanE820Entry ==
    /\ pc = "e820_loop"
    /\ idx < entries
    /\ \E e \in E820Entries :
          /\ fw_off' = fw_off + 8 + 8 + 4
          /\ io_log' = InbTimes(io_log, 8 + 8 + 4)
          /\ e820_seen' = Append(e820_seen, e)
          /\ IF Qualifies(e, region)
                THEN IF overflow_checks /\ AddOverflows(e.start, e.size)
                        THEN /\ Panic("attempt to add with overflow")
                             /\ UNCHANGED << region, idx >>
                        ELSE /\ region' = [start |-> e.start,
                                           end |-> WrapAdd(e.start, e.size)]
                             /\ idx' = idx + 1
                             /\ UNCHANGED << pc, panic_msg, console_out >>
                ELSE /\ idx' = idx + 1
                     /\ UNCHANGED << region, pc, panic_msg, console_out >>
    /\ UNCHANGED << stages, argVars, codecVars, envVars, fw_sel, dirVars,
                    entries, retVars, mapVars, valVars, launchVars >>

\* (mutant) the mask is left out
AlignedStartUnmasked(reg) == WrapSub(reg.end, KERNEL_REGION_SIZE)

\* line 140
AlignedStart(reg) == MaskRegion(WrapSub(reg.end, KERNEL_REGION_SIZE))

\* lines 139-148: align, test, return; stage2_main unwraps the result
AlignRegion ==
    /\ pc = "e820_loop"
    /\ idx = entries
    /\ IF overflow_checks /\ SubOverflows(region.end, KERNEL_REGION_SIZE)
          THEN /\ Panic("attempt to subtract with overflow")
               /\ UNCHANGED << region, retVars >>
          ELSE IF AlignedStart(region) < region.start
                  THEN /\ fkr_result' = RegionTooSmallResult
                       /\ fkr_exit' = 143
                       /\ Panic("find_kernel_region: unwrap on Err")
                       /\ UNCHANGED << region, r >>
                  ELSE /\ region' = [region EXCEPT !.start = AlignedStart(region)]
                       /\ r' = region'
                       /\ fkr_result' = "Ok"
                       /\ fkr_exit' = 148
                       /\ pc' = "map_kernel_region"
                       /\ UNCHANGED << panic_msg, console_out >>
    /\ UNCHANGED << stages, argVars, codecVars, envVars, devVars, dirVars,
                    entries, idx, e820_seen, mapVars, valVars, launchVars >>

\* ----------------------------------------------------- map_kernel_region
MapFlags == { "PRESENT", "WRITABLE", "ACCESSED", "DIRTY" }

\* lines 131-136: the locals of map_memory; find_kernel_region's locals and
\* the listing streamed to it are gone
MapKernelRegionBegin ==
    /\ pc = "map_kernel_region"
    /\ EnterStage("RegionMapping")
    /\ map_paddr' = r.start
    /\ map_vaddr' = KERNEL_VIRT_ADDR
    /\ file' = NoFile
    /\ entries' = 0
    /\ idx' = 0
    /\ region' = ZeroRegion
    /\ e820_seen' = <<>>
    /\ io_log' = <<>>
    /\ pc' = "map_loop"
    /\ UNCHANGED << panic_msg, console_out, argVars, codecVars, envVars,
                    fw_sel, fw_off, n, dir_count, dir_seen, fs_result, retVars,
                    pgtable, valVars, launchVars >>

\* pgtable.map_4k(vaddr, paddr, flags): the entry for vaddr is (re)written
Map4k(pt, vaddr, paddr) ==
    { m \in pt : m.v # vaddr } \cup { [v |-> vaddr, p |-> paddr, flags |-> MapFlags] }

\* (mutant) the loop leaves one page early
MapLoopDoneEarly(paddr, pend) == paddr + PAGE_SIZE >= pend

\* the loop exit test of map_memory, line 123
MapLoopDone(paddr, pend) == paddr >= pend

\* one iteration of map_memory's loop
MapPage ==
    /\ pc = "map_loop"
    /\ \E ok \in BOOLEAN :
          IF ~ok
             THEN /\ Panic("Error mapping kernel region")
                  /\ UNCHANGED mapVars
             ELSE /\ pgtable' = Map4k(pgtable, map_vaddr, map_paddr)
                  /\ IF overflow_checks
                        /\ (AddOverflows(map_paddr, PAGE_SIZE)
                            \/ AddOverflows(map_vaddr, PAGE_SIZE))
                        THEN /\ Panic("attempt to add with overflow")
                             /\ UNCHANGED << map_paddr, map_vaddr >>
                        ELSE /\ map_paddr' = WrapAdd(map_paddr, PAGE_SIZE)
                             /\ map_vaddr' = WrapAdd(map_vaddr, PAGE_SIZE)
                             /\ pc' = IF MapLoopDone(map_paddr', r.end)
                                         THEN "validate_kernel_region"
                                         ELSE "map_loop"
                             /\ UNCHANGED << panic_msg, console_out >>
    /\ UNCHANGED << stages, argVars, codecVars, envVars, devVars, dirVars,
                    scanVars, retVars, valVars, launchVars >>

\* ------------------------------------------------ validate_kernel_region
\* lines 139-142
ValidateKernelRegionBegin ==
    /\ pc = "validate_kernel_region"
    /\ EnterStage("RegionValidation")
    /\ val_kaddr' = KERNEL_VIRT_ADDR
    /\ val_paddr' = r.start
    /\ map_paddr' = 0
    /\ map_vaddr' = 0
    /\ pc' = "validate_msr"
    /\ UNCHANGED << panic_msg, console_out, argVars, codecVars, envVars,
                    devVars, dirVars, scanVars, retVars, pgtable, vlog,
                    launchVars >>

\* (mutant) the result of validate_page_msr is not tested
ValidatePageMsrUnchecked ==
    /\ pc = "validate_msr"
    /\ \E ok \in BOOLEAN :
          vlog' = Append(vlog, [op |-> "validate_page_msr",
                                addr |-> val_paddr, ok |-> ok])
    /\ pc' = "pvalidate"
    /\ UNCHANGED << stages, panic_msg, console_out, argVars, codecVars,
                    envVars, devVars, dirVars, scanVars, retVars, mapVars,
                    val_paddr, val_kaddr, launchVars >>

\* validate_page_msr(paddr), line 146
ValidatePageMsr ==
    /\ pc = "validate_msr"
    /\ \E ok \in BOOLEAN :
          /\ vlog' = Append(vlog, [op |-> "validate_page_msr",
                                   addr |-> val_paddr, ok |-> ok])
          /\ IF ~ok
                THEN Panic("Validating kernel region failed")
                ELSE /\ pc' = "pvalidate"
                     /\ UNCHANGED << panic_msg, console_out >>
    /\ UNCHANGED << stages, argVars, codecVars, envVars, devVars, dirVars,
                    scanVars, retVars, mapVars, val_paddr, val_kaddr,
                    launchVars >>

\* the loop exit test of validate_kernel_region, line 159
ValidateLoopDone(paddr, pend) == paddr >= pend

\* pvalidate(kaddr, false, true), line 151, and the rest of the iteration
Pvalidate ==
    /\ pc = "pvalidate"
    /\ \E ok \in BOOLEAN :
          /\ vlog' = Append(vlog, [op |-> "pvalidate",
                                   addr |-> val_kaddr, ok |-> ok])
          /\ IF ~ok
                THEN /\ Panic("Validating kernel region failed")
                     /\ UNCHANGED << val_paddr, val_kaddr >>
                ELSE IF overflow_checks
                        /\ (AddOverflows(val_kaddr, PAGE_SIZE)
                            \/ AddOverflows(val_paddr, PAGE_SIZE))
                        THEN /\ Panic("attempt to add with overflow")
                             /\ UNCHANGED << val_paddr, val_kaddr >>
                        ELSE /\ val_kaddr' = WrapAdd(val_kaddr, PAGE_SIZE)
                             /\ val_paddr' = WrapAdd(val_paddr, PAGE_SIZE)
                             /\ pc' = IF ValidateLoopDone(val_paddr', r.end)
                                         THEN "read_header"
                                         ELSE "validate_msr"
                             /\ UNCHANGED << panic_msg, console_out >>
    /\ UNCHANGED << stages, argVars, codecVars, envVars, devVars, dirVars,
                    scanVars, retVars, mapVars, launchVars >>

\* ------------------------------------------------------ header and launch
\* lines 233-238: the KernelMetaData at kernel_start
HeaderRead ==
    /\ pc = "read_header"
    /\ EnterStage("HeaderRead")
    /\ \E h \in Headers : kmd' = h
    /\ pc' = "copy_and_launch"
    /\ UNCHANGED << panic_msg, console_out, argVars, codecVars, envVars,
                    devVars, dirVars, scanVars, retVars, mapVars, valVars,
                    launch_info, copy >>

\* KInfo built by stage2_main, lines 240-246
KInfo ==
    [k_image_start |-> kernel_start, k_image_end |-> kernel_end,
     phys_base |-> r.start, phys_end |-> r.end,
     virt_base |-> kmd.virt_addr, entry |-> kmd.entry]

\* (mutant) the handoff carries the range of the image instead of the region
KernelLaunchInfoOfImage(kli) ==
    [kernel_start |-> kli.k_image_start, kernel_end |-> kli.k_image_end,
     virt_base |-> kli.virt_base, cpuid_page |-> CPUID_PAGE_ADDR,
     secrets_page |-> SECRETS_PAGE_ADDR, ghcb |-> 0]

\* KernelLaunchInfo, lines 186-193
KernelLaunchInfo(kli) ==
    [kernel_start |-> kli.phys_base, kernel_end |-> kli.phys_end,
     virt_base |-> kli.virt_base, cpuid_page |-> CPUID_PAGE_ADDR,
     secrets_page |-> SECRETS_PAGE_ADDR, ghcb |-> 0]

\* copy_and_launch_kernel, lines 184-200: the sizes, the KernelLaunchInfo
\* and the two println!() of the kernel's location
CopyAndLaunchKernel ==
    /\ pc = "copy_and_launch"
    /\ EnterStage("CopyAndLaunch")
    /\ IF overflow_checks
          /\ (SubOverflows(KInfo.k_image_end, KInfo.k_image_start)
              \/ SubOverflows(KInfo.virt_base, KInfo.phys_base))
          THEN /\ Panic("attempt to subtract with overflow")
               /\ UNCHANGED launch_info
          ELSE /\ launch_info' = KernelLaunchInfo(KInfo)
               /\ console_out' = console_out \o << "entry", "kernel_area" >>
               /\ pc' = "shutdown_percpu"
               /\ UNCHANGED panic_msg
    /\ UNCHANGED << argVars, codecVars, envVars, devVars, dirVars, scanVars,
                    retVars, mapVars, valVars, kmd, copy >>

\* (mutant) the per-CPU block is left as it is
PercpuAfterShutdownKept(p) == p

\* PerCpu::shutdown() that succeeded
PercpuAfterShutdown(p) == "shutdown"

\* shutdown_percpu(), line 203, then the operands of the asm block are
\* loaded (lines 209-212); copy holds these registers
ShutdownPercpu ==
    /\ pc = "shutdown_percpu"
    /\ \E ok \in BOOLEAN :
          IF ~ok
             THEN /\ Panic("Failed to shut down percpu data")
                  /\ UNCHANGED << percpu, copy >>
             ELSE /\ percpu' = PercpuAfterShutdown(percpu)
                  /\ copy' = [src |-> KInfo.k_image_start,
                              dst |-> KInfo.virt_base,
                              len |-> WrapSub(KInfo.k_image_end,
                                              KInfo.k_image_start),
                              entry |-> KInfo.entry]
                  /\ pc' = "copy_jump"
                  /\ UNCHANGED << panic_msg, console_out >>
    /\ UNCHANGED << stages, argVars, codecVars, sev_es, console, devVars,
                    dirVars, scanVars, retVars, mapVars, valVars, kmd,
                    launch_info >>

PageBase(a) == a - (a % PAGE_SIZE)

\* the pages written by `rep movsb` with rdi = dst and rcx = len
CopyDstPages(c) == { PageBase(WrapAdd(c.dst, k)) : k \in 0..(c.len - 1) }

\* virtual pages mapped by map_kernel_region
MappedPages == { m.v : m \in pgtable }

\* cld; rep movsb; jmp *%rax.  Writing only pages that map_kernel_region
\* mapped succeeds; what a write elsewhere does depends on the page tables
\* paging_init left behind: it lands in other memory or it faults.
\* The jmp does not fall through, so copy_and_launch_kernel does not return
\* and the panic of line 250 behind the call is not reached.
CopyAndJump ==
    /\ pc = "copy_jump"
    /\ \E outcome \in { "launched", "fault" } :
          /\ (CopyDstPages(copy) \subseteq MappedPages => outcome = "launched")
          /\ pc' = outcome
    /\ UNCHANGED << stages, panic_msg, console_out, argVars, codecVars,
                    envVars, devVars, dirVars, scanVars, retVars, mapVars,
                    valVars, launchVars >>

Next ==
    \/ PagingInit
    \/ SetupEnv
    \/ SevInit
    \/ FileSelectorBegin
    \/ FileSelectorRecord
    \/ FileSelectorNotFound
    \/ SelectE820
    \/ ScanE820Entry
    \/ AlignRegion
    \/ MapKernelRegionBegin
    \/ MapPage
    \/ ValidateKernelRegionBegin
    \/ ValidatePageMsr
    \/ Pvalidate
    \/ HeaderRead
    \/ CopyAndLaunchKernel
    \/ ShutdownPercpu
    \/ CopyAndJump

Spec == Init /\ [][Next]_vars

\* ------------------------------------------------- wire format of fw_cfg
\* One byte of the data port carries ByteBits bits; u16, u32 and u64 are
\* 2, 4 and 8 such bytes wide (size_of::<T>()).
ByteBits == 2
Byte == 2 ^ ByteBits
SIZE_OF_U16 == 2
SIZE_OF_U32 == 4
SIZE_OF_U64 == 8

\* io.inb(FW_CFG_DATA): the byte of the selected item at offset off (the
\* device serves 0 behind the end of the item)
Inb(stream, off) == IF off < Len(stream) THEN stream[off + 1] ELSE 0

\* `<<` of an unsigned integer type of w bytes: the high bits are dropped
Shl(val, k, w) == (val * (2 ^ k)) % (2 ^ (ByteBits * w))

\* `|` of two unsigned integers
RECURSIVE BitOr(_, _)
BitOr(a, b) ==
    IF a = 0 THEN b
    ELSE IF b = 0 THEN a
    ELSE (IF a % 2 = 1 \/ b % 2 = 1 THEN 1 ELSE 0)
         + 2 * BitOr(a \div 2, b \div 2)

\* the loop of read_le, lines 51-53, from iteration i on
RECURSIVE ReadLeLoop(_, _, _, _, _)
ReadLeLoop(stream, off, w, i, val) ==
    IF i = w
       THEN val
       ELSE ReadLeLoop(stream, off, w, i + 1,
                       BitOr(Shl(Inb(stream, off + i), i * ByteBits, w), val))

\* read_le::<T>() with size_of::<T>() = w, reading at offset off
read_le(stream, off, w) == ReadLeLoop(stream, off, w, 0, 0)

\* the loop of read_be, lines 65-67, from iteration i on
RECURSIVE ReadBeLoop(_, _, _, _, _)
ReadBeLoop(stream, off, w, i, val) ==
    IF i = w
       THEN val
       ELSE ReadBeLoop(stream, off, w, i + 1,
                       BitOr(Shl(val, ByteBits, w), Inb(stream, off + i)))

\* (mutant) the directory is read in the byte order of the memory map
read_be_as_le(stream, off, w) == read_le(stream, off, w)

\* read_be::<T>() with size_of::<T>() = w, reading at offset off
read_be(stream, off, w) == ReadBeLoop(stream, off, w, 0, 0)

\* read_char(): `io.inb(FW_CFG_DATA) as char`, the character whose code is
\* the byte read
read_char(stream, off) == Inb(stream, off)

\* one directory record as file_selector reads it, lines 90-97
ReadDirRecord(stream, off) ==
    [size |-> read_be(stream, off, SIZE_OF_U32),
     selector |-> read_be(stream, off + SIZE_OF_U32, SIZE_OF_U16),
     unused |-> read_be(stream, off + SIZE_OF_U32 + SIZE_OF_U16, SIZE_OF_U16),
     name |-> FixedStringPushAll(
                 [i \in 1..DIR_NAME_LEN |->
                     read_char(stream, off + SIZE_OF_U32 + 2 * SIZE_OF_U16
                                       + (i - 1))])]

\* the directory item as file_selector reads it: the count (line 85) and
\* one record per iteration of the loop
ReadDirectory(stream) ==
    LET count == read_be(stream, 0, SIZE_OF_U32)
    IN  [kind |-> "directory",
         count |-> count,
         records |-> [k \in 1..count |->
                        ReadDirRecord(stream,
                                      SIZE_OF_U32 + DirRecordBytes * (k - 1))]]

\* one memory-map entry as find_kernel_region reads it, lines 124-126
ReadE820Entry(stream, off) ==
    [start |-> read_le(stream, off, SIZE_OF_U64),
     size |-> read_le(stream, off + SIZE_OF_U64, SIZE_OF_U64),
     type |-> read_le(stream, off + 2 * SIZE_OF_U64, SIZE_OF_U32)]

\* bytes read per memory-map entry, lines 124-126: start u64, size u64, t u32
E820EntryBytes == SIZE_OF_U64 + SIZE_OF_U64 + SIZE_OF_U32

\* the e820 file as find_kernel_region reads it, lines 120-126
ReadE820(stream, file_size) ==
    [kind |-> "e820",
     entries |-> [k \in 1..(file_size \div E820_ENTRY_SIZE) |->
                    ReadE820Entry(stream, E820EntryBytes * (k - 1))]]

\* the wire formats: an integer of w bytes with the most significant byte
\* first (directory item) and with the least significant byte first (e820)
EncodeBE(x, w) == [i \in 1..w |-> (x \div (Byte ^ (w - i))) % Byte]
EncodeLE(x, w) == [i \in 1..w |-> (x \div (Byte ^ (i - 1))) % Byte]

RECURSIVE Flatten(_)
Flatten(seqs) ==
    IF seqs = <<>> THEN <<>> ELSE Head(seqs) \o Flatten(Tail(seqs))

EncodeDirRecord(rec) ==
    EncodeBE(rec.size, SIZE_OF_U32) \o EncodeBE(rec.selector, SIZE_OF_U16)
    \o EncodeBE(rec.unused, SIZE_OF_U16) \o rec.name

EncodeDirectory(recs) ==
    EncodeBE(Len(recs), SIZE_OF_U32)
    \o Flatten([k \in 1..Len(recs) |-> EncodeDirRecord(recs[k])])

EncodeE820Entry(e) ==
    EncodeLE(e.start, SIZE_OF_U64) \o EncodeLE(e.size, SIZE_OF_U64)
    \o EncodeLE(e.type, SIZE_OF_U32)

EncodeE820(es) == Flatten([k \in 1..Len(es) |-> EncodeE820Entry(es[k])])

\* the synthetic values: for each width a small value and one whose bytes
\* differ from each other, so that the byte order matters
SynthU16 == { 1, Byte * (Byte - 1) }
SynthU32 == { 2, Byte ^ 3 + 1 }
SynthU64 == { 0, 3, Byte ^ 7 + Byte }
SynthNames ==
    { [i \in 1..DIR_NAME_LEN |-> i % Byte],
      [i \in 1..DIR_NAME_LEN |-> IF i <= 8 THEN Byte - 1 ELSE 0] }
SynthDirRecords ==
    { [size |-> z, selector |-> s, unused |-> u, name |-> nm] :
        z \in SynthU32, s \in SynthU16, u \in SynthU16, nm \in SynthNames }
SynthE820Entries ==
    { [start |-> s, size |-> z, type |-> t] :
        s \in SynthU64, z \in SynthU64, t \in SynthU32 }
SynthDirectories == UNION { [1..k -> SynthDirRecords] : k \in 0..MaxFiles }
SynthE820Lists == UNION { [1..k -> SynthE820Entries] : k \in 0..MaxEntries }

stageVars ==
    << pc, stages, panic_msg, console_out, argVars, envVars, devVars, dirVars,
       scanVars, retVars, mapVars, valVars, launchVars >>

\* the device side lays out a directory item
EncodeDirectoryItem ==
    /\ codec_pc = "idle"
    /\ \E recs \in SynthDirectories :
          /\ codec_sent' = [kind |-> "directory", count |-> Len(recs),
                            records |-> recs]
          /\ codec_wire' = EncodeDirectory(recs)
    /\ codec_pc' = "directory"
    /\ UNCHANGED << codec_got, stageVars >>

\* the client reads it
DecodeDirectoryItem ==
    /\ codec_pc = "directory"
    /\ codec_got' = ReadDirectory(codec_wire)
    /\ codec_pc' = "decoded"
    /\ UNCHANGED << codec_sent, codec_wire, stageVars >>

\* the device side lays out an e820 file
EncodeE820Item ==
    /\ codec_pc = "idle"
    /\ \E es \in SynthE820Lists :
          /\ codec_sent' = [kind |-> "e820", entries |-> es]
          /\ codec_wire' = EncodeE820(es)
    /\ codec_pc' = "e820"
    /\ UNCHANGED << codec_got, stageVars >>

\* the client reads it; file.size is the length of the file
DecodeE820Item ==
    /\ codec_pc = "e820"
    /\ codec_got' = ReadE820(codec_wire, Len(codec_wire))
    /\ codec_pc' = "decoded"
    /\ UNCHANGED << codec_sent, codec_wire, stageVars >>

NextCodec ==
    \/ EncodeDirectoryItem
    \/ DecodeDirectoryItem
    \/ EncodeE820Item
    \/ DecodeE820Item

SpecCodec == Init /\ [][NextCodec]_vars

\* --------------------------------------------------------------- typing
TypeOK ==
    /\ pc \in { "paging_init", "setup_env", "sev_init", "file_selector",
                "dir_loop", "select_e820", "e820_loop", "map_kernel_region",
                "map_loop", "validate_kernel_region", "validate_msr",
                "pvalidate", "read_header", "copy_and_launch",
                "shutdown_percpu", "copy_jump",
                "launched", "fault", "halted" }
    /\ region.start \in 0..(Top - 1) /\ region.end \in 0..(Top - 1)
    /\ r.start \in 0..(Top - 1) /\ r.end \in 0..(Top - 1)
    /\ map_paddr \in 0..(Top - 1) /\ map_vaddr \in 0..(Top - 1)
    /\ val_paddr \in 0..(Top - 1) /\ val_kaddr \in 0..(Top - 1)
    /\ n \in 0..MaxFiles
    /\ Len(dir_seen) <= MaxFiles
    /\ Len(e820_seen) <= MaxEntries
    /\ percpu \in { "new", "setup", "shutdown" }
    /\ Len(console_out) <= 3
    /\ Len(io_log) <= 6
    /\ codec_pc \in { "idle", "directory", "e820", "decoded" }

\* ================================================================ claims
StageOrder ==
    << "PagingInit", "EnvironmentInit", "SevInit", "RegionDiscovery",
       "RegionMapping", "RegionValidation", "HeaderRead", "CopyAndLaunch" >>

IsPrefix(s, t) == Len(s) <= Len(t) /\ s = SubSeq(t, 1, Len(s))

\* base addresses of the pages of [reg.start, reg.end)
RegionPages(reg) == { a \in reg.start..(reg.end - 1) : (a - reg.start) % PAGE_SIZE = 0 }

\* the virtual address map_kernel_region gives physical address p
VirtOf(p) == KERNEL_VIRT_ADDR + (p - r.start)

PageMapped(p) == \E m \in pgtable : m.p = p /\ m.v = VirtOf(p)

HostValidated(p) ==
    \E i \in 1..Len(vlog) :
        vlog[i] = [op |-> "validate_page_msr", addr |-> p, ok |-> TRUE]

GuestValidated(v) ==
    \E i \in 1..Len(vlog) :
        vlog[i] = [op |-> "pvalidate", addr |-> v, ok |-> TRUE]

\* C1: the stages run in the fixed order, each at most once and never back
\* (the stages entered so far are always a prefix of the order); when the
\* image copy starts and when control has been transferred, all eight stages
\* have run and every page of [r.start, r.end) is mapped at its place in the
\* kernel window and has passed validate_page_msr and pvalidate.
C1_BootOrder ==
    /\ IsPrefix(stages, StageOrder)
    /\ pc \in { "copy_jump", "launched" } =>
          /\ stages = StageOrder
          /\ \A p \in RegionPages(r) :
                PageMapped(p) /\ HostValidated(p) /\ GuestValidated(VirtOf(p))

C1_Witness ==
    /\ pc = "launched"
    /\ Cardinality(RegionPages(r)) >= 3
    /\ Cardinality(pgtable) >= 3

\* C2: in the call trace of validate_kernel_region every pvalidate directly
\* follows a successful validate_page_msr of the same page, and every
\* validate_page_msr but the first directly follows a successful pvalidate
\* of the page before it.
C2_HostBeforeGuest ==
    \A i \in 1..Len(vlog) :
        /\ vlog[i].op = "pvalidate" =>
              /\ i > 1
              /\ vlog[i - 1].op = "validate_page_msr"
              /\ vlog[i - 1].ok
              /\ vlog[i - 1].addr - r.start = vlog[i].addr - KERNEL_VIRT_ADDR
        /\ (vlog[i].op = "validate_page_msr" /\ i > 1) =>
              /\ vlog[i - 1].op = "pvalidate"
              /\ vlog[i - 1].ok
              /\ vlog[i].addr - r.start
                    = vlog[i - 1].addr - KERNEL_VIRT_ADDR + PAGE_SIZE
        /\ (vlog[i].op = "validate_page_msr" /\ i = 1) => vlog[i].addr = r.start

C2_Witness ==
    /\ Len(vlog) >= 4
    /\ \A i \in 1..Len(vlog) : vlog[i].ok

\* 0-based index of the region page a call of the trace is about
PageIndex(c) ==
    IF c.op = "validate_page_msr"
       THEN (c.addr - r.start) \div PAGE_SIZE
       ELSE (c.addr - KERNEL_VIRT_ADDR) \div PAGE_SIZE

FullyValidated ==
    { i \in 1..Len(vlog) : vlog[i].op = "pvalidate" /\ vlog[i].ok }

\* the validation half of C3: calls go up in address, and a failed call is
\* the last one, with exactly k pages fully validated before it
ValidationFailFast ==
    /\ \A i, j \in 1..Len(vlog) :
          (i < j /\ vlog[i].op = vlog[j].op) => vlog[i].addr < vlog[j].addr
    /\ \A i \in 1..Len(vlog) :
          ~vlog[i].ok =>
             /\ i = Len(vlog)
             /\ pc = "halted"
             /\ panic_msg = "Validating kernel region failed"
             /\ Cardinality(FullyValidated) = PageIndex(vlog[i])
             /\ \A j \in 1..Len(vlog) : PageIndex(vlog[j]) <= PageIndex(vlog[i])

\* C3: map_kernel_region and validate_kernel_region visit the pages in
\* strictly increasing address order (every page already mapped lies below
\* the page map_memory visits next), and validation stops at the first
\* failure: the failed call is the last one, exactly k pages were fully
\* validated before it, and stage2_main panics on the error returned.
C3_InOrderFailFast ==
    /\ pc = "map_loop" =>
          \A m \in pgtable : m.p < map_paddr /\ m.v < map_vaddr
    /\ ValidationFailFast

\* the physical page map_kernel_region put behind virtual page v
PhysOf(v) == r.start + (v - KERNEL_VIRT_ADDR)

\* C4: the image is copied to the virtual base at which map_kernel_region
\* mapped the region, so that every page of the destination range
\* [dst, dst + image_size) was mapped by map_kernel_region and validated by
\* validate_kernel_region, whatever the header and the image size (stated
\* for the regions with start < end).
C4_CopyIntoMappedRegion ==
    (pc \in { "copy_jump", "launched", "fault" } /\ r.start < r.end) =>
       \A v \in CopyDstPages(copy) :
          /\ v \in MappedPages
          /\ GuestValidated(v)
          /\ HostValidated(PhysOf(v))

\* find_kernel_region is the call in progress or has just returned
InDiscovery == Len(stages) = 4

\* the scan of etc/e820 is complete and the function has ended
ScanEnded ==
    /\ InDiscovery
    /\ fs_result = "Ok"
    /\ pc \in { "map_kernel_region", "halted" }
    /\ idx = entries

NoUsableRam == \A i \in 1..Len(e820_seen) : e820_seen[i].type # 1

\* C5: when the e820 stream holds no type 1 entry, find_kernel_region ends
\* by returning the error of line 143 (region too small) and returns no
\* region.
C5_NoRamIsTooSmall ==
    (ScanEnded /\ NoUsableRam) => (fkr_result = "Err" /\ fkr_exit = 143)

\* C6: a region returned by find_kernel_region has end > start, a start
\* aligned to KERNEL_REGION_SIZE and a width that is a multiple of
\* KERNEL_REGION_SIZE.
C6_RegionShape ==
    fkr_result = "Ok" =>
       /\ r.end > r.start
       /\ r.start % KERNEL_REGION_SIZE = 0
       /\ (r.end - r.start) % KERNEL_REGION_SIZE = 0

\* C7: a region returned by find_kernel_region lies inside one type 1 entry
\* of the stream: e.start <= r.start and r.end <= e.start + e.size, the sum
\* taken in the integers.
C7_RegionInUsableRam ==
    (ScanEnded /\ fkr_result = "Ok") =>
       \E i \in 1..Len(e820_seen) :
          /\ e820_seen[i].type = 1
          /\ e820_seen[i].start <= r.start
          /\ r.end <= e820_seen[i].start + e820_seen[i].size

\* index of the last entry of seq with type 1 and a start not below the
\* start of the running region when it was read (0 when there is none)
RECURSIVE LastQualifying(_)
LastQualifying(seq) ==
    IF seq = <<>>
       THEN 0
       ELSE LET k == Len(seq)
                prev == LastQualifying(SubSeq(seq, 1, k - 1))
                running == IF prev = 0 THEN 0 ELSE seq[prev].start
            IN  IF seq[k].type = 1 /\ seq[k].start >= running THEN k ELSE prev

\* C8: when the stream holds a type 1 entry, the region held at the end of
\* the scan is {e.start, e.start + e.size} (a u64 sum) for the last
\* qualifying entry e of the stream: no merging, no maximum, and entries of
\* other types leave it alone.
C8_LastQualifyingWins ==
    (pc = "e820_loop" /\ idx = entries /\ ~NoUsableRam) =>
       LET k == LastQualifying(e820_seen)
       IN  /\ k \in 1..Len(e820_seen)
           /\ region = [start |-> e820_seen[k].start,
                        end |-> (e820_seen[k].start + e820_seen[k].size) % Top]

\* an out-of-order stream: the second type 1 entry starts below the first
C8_Witness ==
    /\ pc = "e820_loop"
    /\ idx = entries
    /\ Len(e820_seen) = 2
    /\ e820_seen[1].type = 1
    /\ e820_seen[2].type = 1
    /\ e820_seen[2].start < e820_seen[1].start
    /\ e820_seen[2].size > e820_seen[1].size
    /\ region.start = e820_seen[1].start

\* the stream [(0x0, 0x20000000, 1)] in units of KERNEL_REGION_SIZE
ExampleStream == << [start |-> 0, size |-> 32 * KERNEL_REGION_SIZE, type |-> 1] >>

NameIs(rec, str) == rec.name = str \o [i \in 1..(DIR_NAME_LEN - Len(str)) |-> 0]

\* C10: file_selector returns the size and selector of the first record of
\* the listing whose name field is "etc/e820" followed by padding, and it
\* returns NotFound (Err) only after reading all count records, none of
\* which has that name.
C10_FirstMatchWins ==
    /\ pc = "dir_loop" =>
          \A j \in 1..Len(dir_seen) : ~NameIs(dir_seen[j], E820_FILE_NAME)
    /\ pc = "select_e820" =>
          /\ fs_result = "Ok"
          /\ Len(dir_seen) \in 1..dir_count
          /\ NameIs(dir_seen[Len(dir_seen)], E820_FILE_NAME)
          /\ \A j \in 1..(Len(dir_seen) - 1) :
                ~NameIs(dir_seen[j], E820_FILE_NAME)
          /\ file = [size |-> dir_seen[Len(dir_seen)].size,
                     selector |-> dir_seen[Len(dir_seen)].selector]
    /\ fs_result = "Err" =>
          /\ Len(dir_seen) = dir_count
          /\ \A j \in 1..Len(dir_seen) : ~NameIs(dir_seen[j], E820_FILE_NAME)

\* found behind a record whose name extends "etc/e820"
C10_Witness ==
    /\ pc = "select_e820"
    /\ Len(dir_seen) = 2
    /\ SubSeq(dir_seen[1].name, 1, Len(E820_FILE_NAME)) = E820_FILE_NAME
    /\ file.selector = dir_seen[2].selector

\* 1-based index of the first record of seq named str (0 when there is none)
FirstNamed(seq, str) ==
    IF \E j \in 1..Len(seq) : NameIs(seq[j], str)
       THEN CHOOSE j \in 1..Len(seq) :
               /\ NameIs(seq[j], str)
               /\ \A i \in 1..(j - 1) : ~NameIs(seq[i], str)
       ELSE 0

\* C11: when file_selector returns, the directory item is selected and,
\* behind the 4-byte count, exactly 64 * k bytes of it have been read, k
\* being the index of the first record named "etc/e820", or the count when
\* there is none (no record byte at all for count = 0); no record behind a
\* match is read.
C11_ReadsOnlyNeededBytes ==
    /\ pc = "select_e820" =>
          /\ fw_sel = FW_CFG_FILE_DIR
          /\ FirstNamed(dir_seen, E820_FILE_NAME) = Len(dir_seen)
          /\ fw_off = 4 + 64 * FirstNamed(dir_seen, E820_FILE_NAME)
    /\ fs_result = "Err" =>
          /\ fw_sel = FW_CFG_FILE_DIR
          /\ FirstNamed(dir_seen, E820_FILE_NAME) = 0
          /\ fw_off = 4 + 64 * dir_count
          /\ (dir_count = 0 => (fw_off = 4 /\ dir_seen = <<>>))

\* a match in the first of several records: the scan stops behind it
C11_Witness ==
    /\ pc = "select_e820"
    /\ dir_count >= 2
    /\ Len(dir_seen) = 1
    /\ fw_off = 68

\* find_kernel_region has returned because the directory holds no "etc/e820"
NoE820File ==
    /\ fkr_exit = 113
    /\ \A j \in 1..Len(dir_seen) : ~NameIs(dir_seen[j], E820_FILE_NAME)

\* with no "etc/e820" the directory item stays the selected one and no
\* memory-map entry is read
NoFileNoE820Access ==
    NoE820File =>
        /\ fw_sel = FW_CFG_FILE_DIR
        /\ file = NoFile
        /\ e820_seen = <<>>
        /\ idx = 0

\* C12: when the directory has no file named "etc/e820", find_kernel_region
\* returns an error value that differs from the one it returns for a region
\* that is too small, and it has selected no file item and read no
\* memory-map entry.
C12_NoMemoryMapIsDistinct ==
    /\ NoFileNoE820Access
    /\ NoE820File => (fkr_result # "Ok" /\ fkr_result # RegionTooSmallResult)

\* a failed discovery, mapping or validation halts the boot at once: nothing
\* of a later stage has happened
FailureStopsBoot ==
    /\ (pc = "halted" /\ panic_msg = "find_kernel_region: unwrap on Err") =>
          (pgtable = {} /\ vlog = <<>> /\ kmd = NoHeader /\ copy = NoCopy)
    /\ (pc = "halted" /\ panic_msg = "Error mapping kernel region") =>
          (vlog = <<>> /\ kmd = NoHeader /\ copy = NoCopy)
    /\ (pc = "halted" /\ panic_msg = "Validating kernel region failed") =>
          (kmd = NoHeader /\ copy = NoCopy)
    /\ pc = "halted" => (IsPrefix(stages, StageOrder) /\ copy = NoCopy)

\* the halt loop of the panic handler is never left, and neither is the kernel
HaltIsFinal == [][pc \notin { "halted", "launched" }]_vars

SevEsAbsent == pc \notin { "paging_init", "setup_env" } /\ ~sev_es

\* C14: when SEV-ES is absent, setup_env panics and the boot halts there:
\* SevInit is never entered, the firmware-config device is neither selected
\* nor read, and no page is mapped, validated, copied to or launched.
C14_NoSevEsHalts ==
    SevEsAbsent =>
        /\ pc = "halted"
        /\ panic_msg \in { "SEV-ES not available", "Failed to setup percpu data" }
        /\ stages = << "PagingInit", "EnvironmentInit" >>
        /\ fw_sel = 0 /\ fw_off = 0 /\ io_log = <<>>
        /\ dir_seen = <<>> /\ e820_seen = <<>>
        /\ pgtable = {}
        /\ vlog = <<>>
        /\ kmd = NoHeader /\ launch_info = NoLaunchInfo /\ copy = NoCopy

\* the SEV-ES test has failed and the panic handler halts
C14_Witness ==
    /\ SevEsAbsent
    /\ pc = "halted"
    /\ percpu = "setup"
    /\ panic_msg = "SEV-ES not available"

\* the per-CPU block is shut down exactly in the states behind
\* shutdown_percpu(), where the handoff structure is already built
PercpuLifecycle ==
    /\ percpu = "new" =>
          (pc \in { "paging_init", "setup_env" }
           \/ (pc = "halted" /\ panic_msg = "Failed to setup percpu data"))
    /\ percpu = "shutdown" <=> pc \in { "copy_jump", "launched", "fault" }
    /\ percpu = "shutdown" => launch_info = KernelLaunchInfo(KInfo)
    /\ pc = "shutdown_percpu" => (launch_info = KernelLaunchInfo(KInfo)
                                  /\ copy = NoCopy)

\* the block changes only by its setup in setup_env and by its shutdown in
\* copy_and_launch_kernel; once it is shut down nothing validates a page,
\* touches the firmware-config device or prints
PercpuStep ==
    /\ percpu' # percpu =>
          \/ percpu = "new" /\ percpu' = "setup" /\ pc = "setup_env"
          \/ /\ percpu = "setup" /\ percpu' = "shutdown"
             /\ pc = "shutdown_percpu" /\ pc' = "copy_jump"
    /\ percpu = "shutdown" =>
          /\ percpu' = "shutdown"
          /\ pc = "copy_jump"
          /\ vlog' = vlog
          /\ fw_sel' = fw_sel /\ fw_off' = fw_off
          /\ console_out' = console_out

\* C15: the per-CPU communication block is set up once, in setup_env, and
\* shut down once, in copy_and_launch_kernel behind the construction of the
\* handoff structure and right before the copy and the jump; it is never
\* set up again, and between its shutdown and the control transfer no page
\* is validated and no firmware-config or console I/O is done.
C15_PercpuLifecycle == []PercpuLifecycle /\ [][PercpuStep]_vars

\* the kernel is entered with the block shut down
C15_Witness ==
    /\ pc = "launched"
    /\ percpu = "shutdown"
    /\ launch_info # NoLaunchInfo
    /\ Len(console_out) = 2

\* the mapping the claim gives the page at physical address p of r
RegionMapping(p) ==
    [v |-> KERNEL_VIRT_ADDR + (p - r.start), p |-> p, flags |-> MapFlags]

\* the mappings of the pages of [r.start, r.end) below physical address a
MappingsBelow(a) == { RegionMapping(p) : p \in { q \in RegionPages(r) : q < a } }

\* map_kernel_region has returned Ok
MappingDone ==
    pc \in { "validate_kernel_region", "validate_msr", "pvalidate",
             "read_header", "copy_and_launch", "shutdown_percpu",
             "copy_jump", "launched", "fault" }

\* C16: map_kernel_region maps exactly the pages of [r.start, r.end), page i
\* at KERNEL_VIRT_ADDR + PAGE_SIZE * i with the flags present, writable,
\* accessed and dirty: while the loop runs, and when a mapping has failed,
\* the page table holds the pages below the current one and nothing else;
\* when the function has returned it holds all pages below r.end and no
\* page at or above r.end (stated for start < end).
C16_MapsExactlyRegion ==
    r.start < r.end =>
       /\ (pc = "map_loop"
           \/ (pc = "halted" /\ panic_msg = "Error mapping kernel region")) =>
             pgtable = MappingsBelow(map_paddr)
       /\ MappingDone => pgtable = MappingsBelow(r.end)

\* C17: a synthetic directory (count and records of size, selector, unused
\* and 56-byte name, big-endian) and a synthetic e820 list (start, size and
\* type, little-endian), laid out as the wire byte stream and read back
\* through read_be, read_le and read_char, give exactly the values they
\* were laid out from, for the widths u16, u32 and u64.
C17_RoundTrip == codec_pc = "decoded" => codec_got = codec_sent

\* a directory of two records has been read back
C17_Witness ==
    /\ codec_pc = "decoded"
    /\ codec_sent.kind = "directory"
    /\ codec_sent.count = 2
    /\ codec_sent.records[1].selector = Byte * (Byte - 1)
    /\ codec_sent.records[2].size = Byte ^ 3 + 1
    /\ codec_got = codec_sent

\* the e820 streams of up to MaxEntries entries
ScanStreams == UNION { [1..k -> E820Entries] : k \in 0..MaxEntries }

\* the type 1 entries of seq with the highest start address
HighestStart(seq) ==
    { i \in 1..Len(seq) :
        /\ seq[i].type = 1
        /\ \A j \in 1..Len(seq) : seq[j].type = 1 => seq[j].start <= seq[i].start }

OutOfOrder(seq) ==
    \E i, j \in 1..Len(seq) : i < j /\ seq[j].start < seq[i].start

\* C18 (as stated): there is an out-of-order e820 stream (one that begins
\* with the entries read so far, which are none before the scan) for which
\* the entry the scan selects is not a type 1 entry with the highest start
\* address.
C18_ScanNotHighestStart ==
    \E es \in ScanStreams :
        /\ IsPrefix(e820_seen, es)
        /\ OutOfOrder(es)
        /\ HighestStart(es) # {}
        /\ ScanSelect(es) \notin HighestStart(es)

\* the type 1 entries of seq that reach the highest end address
HighestEnd(seq) ==
    { i \in 1..Len(seq) :
        /\ seq[i].type = 1
        /\ \A j \in 1..Len(seq) :
              seq[j].type = 1 =>
                 seq[j].start + seq[j].size <= seq[i].start + seq[i].size }

\* C18 (amended): whatever the order of the stream, the region held at the
\* end of the scan is taken from the last of the type 1 entries with the
\* highest start address; that entry need not be the one reaching the
\* highest address or the largest one.
C18_ScanTracksHighestStart ==
    (pc = "e820_loop" /\ idx = entries /\ ~NoUsableRam) =>
       LET top == HighestStart(e820_seen)
           k == CHOOSE i \in top : \A j \in top : j <= i
       IN  /\ top # {}
           /\ ScanSelect(e820_seen) = k
           /\ region.start = e820_seen[k].start
           /\ region.end = WrapAdd(e820_seen[k].start, e820_seen[k].size)

\* an out-of-order stream: the entry selected has the highest start, the
\* entry behind it starts lower and reaches higher
C18_Witness ==
    /\ pc = "e820_loop"
    /\ idx = entries
    /\ Len(e820_seen) = 2
    /\ OutOfOrder(e820_seen)
    /\ ScanSelect(e820_seen) = 1
    /\ HighestEnd(e820_seen) = { 2 }
    /\ region.start = e820_seen[1].start

\* every call of the validation log is made on a page map_kernel_region
\* mapped, at the same offset from KERNEL_VIRT_ADDR and from r.start
ValidatedWasMapped ==
    \A i \in 1..Len(vlog) :
       \E m \in pgtable :
          /\ m.v - KERNEL_VIRT_ADDR = m.p - r.start
          /\ IF vlog[i].op = "validate_page_msr"
                THEN m.p = vlog[i].addr
                ELSE m.v = vlog[i].addr

\* the handoff structure carries the region as discovery returned it
HandoffCarriesRegion ==
    launch_info # NoLaunchInfo =>
       /\ launch_info.kernel_start = r.start
       /\ launch_info.kernel_end = r.end
       /\ launch_info.cpuid_page = 651264
       /\ launch_info.secrets_page = 647168

RegionConsumers == ValidatedWasMapped /\ HandoffCarriesRegion

\* C19: the KernelRegion find_kernel_region returned is not changed
\* afterwards; map_kernel_region and validate_kernel_region work on the
\* same range from the same virtual base (every page validated was mapped,
\* virtual - KERNEL_VIRT_ADDR = physical - start), and the launch handoff
\* has kernel_start = start, kernel_end = end, cpuid_page = 0x9f000 and
\* secrets_page = 0x9e000.
C19_RegionFrame ==
    /\ []RegionConsumers
    /\ [][fkr_result = "Ok" => r' = r]_vars

\* the kernel is entered with the handoff of a validated region
C19_Witness ==
    /\ pc = "launched"
    /\ fkr_result = "Ok"
    /\ r.start < r.end
    /\ Len(vlog) >= 4
    /\ launch_info.kernel_start = r.start
    /\ launch_info.kernel_end = r.end

\* a 16-bit selector write to the control port 0x510
SelectorWrite(v) == [op |-> "outw", port |-> 1296, val |-> v]

\* k byte reads from the data port 0x511 in a row
DataReads(k) == [op |-> "inb", port |-> 1297, val |-> k]

\* the device is driven by selector writes and data reads only, and the
\* first access is a select
SelectThenStream ==
    /\ \A i \in 1..Len(io_log) :
          \/ /\ io_log[i] = SelectorWrite(io_log[i].val)
             /\ io_log[i].val \in 0..65535
          \/ /\ io_log[i] = DataReads(io_log[i].val)
             /\ io_log[i].val > 0
             /\ i > 1
    /\ io_log # <<>> => io_log[1] = SelectorWrite(1)

\* the accesses of file_selector that found the file in record k
LookupLog(k) ==
    << SelectorWrite(1), DataReads(4), SelectorWrite(25), DataReads(4 + 64 * k) >>

\* the accesses of a find_kernel_region that has read m entries of the file
ScanLog(k, m) ==
    LookupLog(k) \o << SelectorWrite(file.selector) >>
    \o (IF m = 0 THEN <<>> ELSE << DataReads(20 * m) >>)

\* C20: find_kernel_region writes only 16-bit selectors to port 0x510 and
\* reads only bytes from port 0x511, the first access being a select; when
\* the file is found the selectors written are 0x01 (4 bytes read), 0x19
\* (count and records read) and the selector of the file, in this order,
\* and 20 * (file_size / 20) bytes of the file are read, 20 per entry.
C20_SelectThenStream ==
    InDiscovery =>
       /\ SelectThenStream
       /\ pc = "e820_loop" =>
             \E k \in 1..MaxFiles : io_log = ScanLog(k, idx)
       /\ (fs_result = "Ok" /\ idx = entries
           /\ pc \in { "e820_loop", "map_kernel_region" }) =>
             \E k \in 1..MaxFiles : io_log = ScanLog(k, file.size \div 20)

\* the whole of a file of two entries and a partial one has been read
C20_Witness ==
    /\ pc = "map_kernel_region"
    /\ file.size > 40 /\ file.size < 60
    /\ Len(io_log) = 6
    /\ io_log[5] = SelectorWrite(file.selector)
    /\ io_log[6] = DataReads(40)

====
